---- MODULE Spec2Model ----
(***************************************************************************)
(* A model of simple_shopping_list_bot (src/src/main.rs, src/src/data.rs): *)
(* the Document behind the CONFIG mutex, the two handler channels of the   *)
(* dispatcher, the edit-or-send display protocol and the store file.       *)
(*                                                                         *)
(* A string is a sequence of characters; a character is a one-character    *)
(* string, and a code point outside ASCII is written by its name           *)
(* ("U+1F49A"), so that formatting and splitting are computed character    *)
(* by character as the code computes them. The store file is a sequence    *)
(* of bytes.                                                               *)
(***************************************************************************)
EXTENDS Integers, Sequences, FiniteSets, Bags, TLC

(***************************************************************************)
(* Bounds of the model.                                                    *)
(***************************************************************************)
\* the most strings and flags the Document may hold (see Size)
MaxSize == 5
\* the most items of the shopping list in the scenario of the removals
MaxItems == 3
\* failures of transport calls and of file operations, and user deletions of
\* bot messages, the environment injects
MaxFaults == 1
\* the most writes handed to the blocking pool and not yet carried out
MaxPending == 1
\* the bytes a failing write has written to the file when it is not none: the
\* size the environment lets the file grow to
WriteLimit == 50

(***************************************************************************)
(* String literals of the program and of the inputs.                       *)
(***************************************************************************)
Pasta == <<"P", "a", "s", "t", "a">>
Noodles == <<"N", "o", "o", "d", "l", "e", "s">>
Sauce == <<"S", "a", "u", "c", "e">>
Note == <<"#", "n", "o", "t", "e">>
Unknown == <<"U", "n", "k", "n", "o", "w", "n">>

StrStartRecipe == <<"s", "t", "a", "r", "t", "_", "r", "e", "c", "i", "p", "e">>
StrStartRemove == <<"s", "t", "a", "r", "t", "_", "r", "e", "m", "o", "v", "e">>
StrRecipeDone == <<"r", "e", "c", "i", "p", "e", "_", "d", "o", "n", "e">>
StrToggle == <<"t", "o", "g", "g", "l", "e">>
StrRemoveDone == <<"r", "e", "m", "o", "v", "e", "_", "d", "o", "n", "e">>
StrListRecipes == <<"l", "i", "s", "t", "_", "r", "e", "c", "i", "p", "e", "s">>
StrAdd == <<"a", "d", "d">>
StrReturnToMainList ==
    <<"r", "e", "t", "u", "r", "n", "_", "t", "o", "_", "m", "a", "i", "n", "_", "l", "i", "s", "t">>
StrBogus == <<"b", "o", "g", "u", "s">>

StrEinkaufsliste ==
    <<"E", "i", "n", "k", "a", "u", "f", "s", "l", "i", "s", "t", "e", ":">>
StrNeuesRezept ==
    <<"N", "e", "u", "e", "s", " ", "R", "e", "z", "e", "p", "t", ":">>
StrClickTheRecipe ==
    <<"C", "l", "i", "c", "k", " ", "t", "h", "e", " ", "r", "e", "c", "i", "p", "e", " ",
      "t", "o", " ", "a", "d", "d", ":">>
StrThumbsUp == <<"U+1F44D">>
StrGreenHeart == <<"U+1F49A">>
StrCart == <<"U+1F6D2">>
StrMemoCart == <<"U+1F4DD", "U+1F6D2">>
StrMemoPlus == <<"U+1F4DD", "U+2795">>
StrBullet == <<"\n", " ", "-", " ">>

(***************************************************************************)
(* String functions of the standard library, as the program uses them.     *)
(***************************************************************************)
DigitChars == <<"0", "1", "2", "3", "4", "5", "6", "7", "8", "9">>

\* char::is_whitespace: the code points with the Unicode property White_Space
WhiteSpace ==
    {"\t", "\n", "U+000B", "\f", "\r", " ", "U+0085", "U+00A0", "U+1680",
     "U+2000", "U+2001", "U+2002", "U+2003", "U+2004", "U+2005", "U+2006",
     "U+2007", "U+2008", "U+2009", "U+200A", "U+2028", "U+2029", "U+202F",
     "U+205F", "U+3000"}

IsWhitespace(c) == c \in WhiteSpace

IsDigit(c) == \E i \in 1..Len(DigitChars) : DigitChars[i] = c

DigitVal(c) == (CHOOSE i \in 1..Len(DigitChars) : DigitChars[i] = c) - 1

\* format!("{}", i) of a usize
RECURSIVE ToDecimal(_)
ToDecimal(n) ==
    IF n < 10 THEN <<DigitChars[n + 1]>>
    ELSE ToDecimal(n \div 10) \o <<DigitChars[(n % 10) + 1]>>

RECURSIVE DecimalValue(_, _)
DecimalValue(acc, s) ==
    IF s = <<>> THEN acc ELSE DecimalValue(acc * 10 + DigitVal(Head(s)), Tail(s))

\* usize::MAX of a 64-bit target, in decimal
UsizeMaxDigits ==
    <<"1", "8", "4", "4", "6", "7", "4", "4", "0", "7",
      "3", "7", "0", "9", "5", "5", "1", "6", "1", "5">>

RECURSIVE StripZeros(_)
StripZeros(s) ==
    IF s # <<>> /\ Head(s) = "0" THEN StripZeros(Tail(s)) ELSE s

\* a <= b for two digit strings of one length
RECURSIVE DigitsLeq(_, _)
DigitsLeq(a, b) ==
    IF a = <<>> THEN TRUE
    ELSE IF DigitVal(Head(a)) # DigitVal(Head(b)) THEN DigitVal(Head(a)) < DigitVal(Head(b))
    ELSE DigitsLeq(Tail(a), Tail(b))

\* the digits stand for a number above usize::MAX (PosOverflow)
Overflows(digits) ==
    LET sig == StripZeros(digits)
    IN  \/ Len(sig) > Len(UsizeMaxDigits)
        \/ Len(sig) = Len(UsizeMaxDigits) /\ ~DigitsLeq(sig, UsizeMaxDigits)

\* str::parse::<usize>: an optional '+', then one or more digits that stand for
\* a number up to usize::MAX
ParseUsize(s) ==
    LET body == IF s # <<>> /\ Head(s) = "+" THEN Tail(s) ELSE s
    IN  IF body # <<>> /\ (\A i \in 1..Len(body) : IsDigit(body[i])) /\ ~Overflows(body)
        THEN [ok |-> TRUE, val |-> DecimalValue(0, StripZeros(body))]
        ELSE [ok |-> FALSE, val |-> 0]

RECURSIVE SplitWs(_, _, _)
SplitWs(s, cur, acc) ==
    IF s = <<>> THEN (IF cur = <<>> THEN acc ELSE Append(acc, cur))
    ELSE IF IsWhitespace(Head(s))
         THEN SplitWs(Tail(s), <<>>, IF cur = <<>> THEN acc ELSE Append(acc, cur))
         ELSE SplitWs(Tail(s), Append(cur, Head(s)), acc)

\* str::split_whitespace: the maximal runs of non-whitespace characters
split_whitespace(s) == SplitWs(s, <<>>, <<>>)

\* str::starts_with
starts_with(s, prefix) ==
    Len(s) >= Len(prefix) /\ SubSeq(s, 1, Len(prefix)) = prefix

(***************************************************************************)
(* The Document (struct Data) and its derived views.                       *)
(***************************************************************************)
None == [some |-> FALSE]
Some(v) == [some |-> TRUE, val |-> v]

DefaultData ==
    [items |-> <<>>, recipes |-> <<>>, active_message |-> None, current_recipe |-> None]

Item(name, checked) == [name |-> name, checked |-> checked]
Recipe(name, ingredients) == [name |-> name, ingredients |-> ingredients]

\* iter().fold(String::new(), |a, b| format!("{}\n - {}", a, b))
RECURSIVE FoldBullets(_, _)
FoldBullets(acc, names) ==
    IF names = <<>> THEN acc
    ELSE FoldBullets(acc \o StrBullet \o Head(names), Tail(names))

ItemNames(items) == [i \in 1..Len(items) |-> items[i].name]

get_shopping_list_message_text(d) ==
    StrEinkaufsliste \o <<"\n">> \o FoldBullets(<<>>, ItemNames(d.items))

get_recipe_text(d) ==
    IF d.current_recipe.some /\ d.current_recipe.val.name.some
    THEN d.current_recipe.val.name.val \o <<":">>
         \o FoldBullets(<<>>, d.current_recipe.val.ingredients)
    ELSE <<>>

Button(label, data) == [label |-> label, data |-> data]

get_list_markup(d) ==
    [i \in 1..Len(d.items) |->
        << Button(<<"U+FE0F">>
                  \o (IF d.items[i].checked THEN <<"U+2764", " ">> ELSE <<>>)
                  \o d.items[i].name,
                  StrToggle \o <<" ">> \o ToDecimal(i - 1)) >>]
    \o << << Button(StrGreenHeart, StrRemoveDone) >> >>

get_recipe_buttons(d) ==
    [i \in 1..Len(d.recipes) |->
        << Button(d.recipes[i].name, StrAdd \o <<" ">> \o d.recipes[i].name) >>]
    \o << << Button(StrGreenHeart, StrReturnToMainList) >> >>

get_action_buttons_markup ==
    << << Button(StrCart, StrStartRemove), Button(StrMemoCart, StrListRecipes) >>,
       << Button(StrMemoPlus, StrStartRecipe) >> >>

get_recipe_markup == << << Button(StrGreenHeart, StrRecipeDone) >> >>

View(text, markup) == [text |-> text, markup |-> markup]

(***************************************************************************)
(* The pure parts of the handlers: what an event does to the Document      *)
(* before its first transport call.                                        *)
(***************************************************************************)
\* Data::handle_new_item up to its view update: the ingredients of every
\* recipe named text, or text itself when that list is empty
MatchingIngredients(recipes, text) ==
    LET RECURSIVE Collect(_)
        Collect(rs) ==
            IF rs = <<>> THEN <<>>
            ELSE (IF Head(rs).name = text THEN Head(rs).ingredients ELSE <<>>)
                 \o Collect(Tail(rs))
    IN  Collect(recipes)

handle_new_item(d, text) ==
    LET found == MatchingIngredients(d.recipes, text)
    IN  IF found = <<>>
        THEN [d EXCEPT !.items = Append(@, Item(text, FALSE))]
        ELSE [d EXCEPT !.items = @ \o [i \in 1..Len(found) |-> Item(found[i], FALSE)]]

\* Data::update_shopping_list: the arguments it hands to replace_active_message
update_shopping_list(d) ==
    View(get_shopping_list_message_text(d), get_action_buttons_markup)

\* split.fold(String::new(), |a, b| format!("{} {}", a, b))
RECURSIVE FoldSpaces(_, _)
FoldSpaces(acc, tokens) ==
    IF tokens = <<>> THEN acc
    ELSE FoldSpaces(acc \o <<" ">> \o Head(tokens), Tail(tokens))

\* Vec::remove(i), i counted from 0, for an index i of s (it panics past the end)
RemoveAt(s, i) == SubSeq(s, 1, i) \o SubSeq(s, i + 2, Len(s))

\* items.iter().enumerate().rev().filter(gotten).map(index).collect()
RECURSIVE CheckedIndicesRev(_, _)
CheckedIndicesRev(items, n) ==
    IF n = 0 THEN <<>>
    ELSE (IF items[n].checked THEN <<n - 1>> ELSE <<>>) \o CheckedIndicesRev(items, n - 1)

RECURSIVE RemoveEach(_, _)
RemoveEach(items, indices) ==
    IF indices = <<>> THEN items
    ELSE RemoveEach(RemoveAt(items, Head(indices)), Tail(indices))

\* the remove_done arm: remove the checked items, highest index first
RemoveDone(items) == RemoveEach(items, CheckedIndicesRev(items, Len(items)))

\* What a handler has done when it reaches its first await after the lock:
\*   "view"  it calls replace_active_message(view) on the Document doc
\*   "ok"    it returns Ok(()) without a view update
\*   "err"   it returns Err (the ? operator)
\*   "panic" it panics (an unwrap of None)
Outcome(kind, doc, view) == [kind |-> kind, doc |-> doc, view |-> view]
NoView == View(<<>>, <<>>)

\* a variant without the comment arm: a text in Normal mode is always an item
handle_message_no_comment(d, text) ==
    IF d.current_recipe.some
    THEN LET cr == d.current_recipe.val
             cr2 == IF cr.name.some
                    THEN [cr EXCEPT !.ingredients = Append(@, text)]
                    ELSE [cr EXCEPT !.name = Some(text)]
             d2 == [d EXCEPT !.current_recipe = Some(cr2)]
         IN  Outcome("view", d2, View(get_recipe_text(d2), get_recipe_markup))
    ELSE LET d2 == handle_new_item(d, text)
         IN  Outcome("view", d2, update_shopping_list(d2))

\* a variant that looks for the comment marker before it looks at the mode
handle_message_comment_first(d, text) ==
    IF starts_with(text, <<"#">>)
    THEN Outcome("ok", d, NoView)
    ELSE handle_message_no_comment(d, text)

\* handle_message, for a text message
handle_message(d, text) ==
    IF d.current_recipe.some
    THEN LET cr == d.current_recipe.val
             cr2 == IF cr.name.some
                    THEN [cr EXCEPT !.ingredients = Append(@, text)]
                    ELSE [cr EXCEPT !.name = Some(text)]
             d2 == [d EXCEPT !.current_recipe = Some(cr2)]
         IN  Outcome("view", d2, View(get_recipe_text(d2), get_recipe_markup))
    ELSE IF starts_with(text, <<"#">>)
         THEN Outcome("ok", d, NoView)
         ELSE LET d2 == handle_new_item(d, text)
              IN  Outcome("view", d2, update_shopping_list(d2))

\* a variant that checks the item instead of flipping its flag
ToggleChecks(d, rest) ==
    IF rest = <<>> THEN Outcome("panic", d, NoView)
    ELSE LET parsed == ParseUsize(Head(rest))
         IN  IF ~parsed.ok THEN Outcome("err", d, NoView)
             ELSE IF parsed.val >= Len(d.items) THEN Outcome("panic", d, NoView)
             ELSE LET d2 == [d EXCEPT !.items[parsed.val + 1].checked = TRUE]
                  IN  Outcome("view", d2, View(StrEinkaufsliste, get_list_markup(d2)))

\* the toggle arm
Toggle(d, rest) ==
    IF rest = <<>> THEN Outcome("panic", d, NoView)
    ELSE LET parsed == ParseUsize(Head(rest))
         IN  IF ~parsed.ok THEN Outcome("err", d, NoView)
             ELSE IF parsed.val >= Len(d.items) THEN Outcome("panic", d, NoView)
             ELSE LET d2 == [d EXCEPT !.items[parsed.val + 1].checked = ~@]
                  IN  Outcome("view", d2, View(StrEinkaufsliste, get_list_markup(d2)))

\* a variant of the remove_done arm without the .rev(): the indices are
\* removed lowest first, and Vec::remove panics on an index that is past the
\* end of the list by then
RemoveDoneArmForward(d) ==
    LET RECURSIVE Rev(_)
        Rev(s) == IF s = <<>> THEN <<>> ELSE Rev(Tail(s)) \o <<Head(s)>>
        RECURSIVE Each(_, _)
        Each(its, ix) ==
            IF ix = <<>> THEN [ok |-> TRUE, items |-> its]
            ELSE IF Head(ix) >= Len(its) THEN [ok |-> FALSE, items |-> its]
            ELSE Each(RemoveAt(its, Head(ix)), Tail(ix))
        r == Each(d.items, Rev(CheckedIndicesRev(d.items, Len(d.items))))
        d2 == [d EXCEPT !.items = r.items]
    IN  IF r.ok THEN Outcome("view", d2, update_shopping_list(d2))
        ELSE Outcome("panic", d2, NoView)

\* the remove_done arm
RemoveDoneArm(d) ==
    LET d2 == [d EXCEPT !.items = RemoveDone(@)]
    IN  Outcome("view", d2, update_shopping_list(d2))

\* the recipe_done arm up to its view update
RecipeDone(d) ==
    LET d2 == IF d.current_recipe.some /\ d.current_recipe.val.name.some
              THEN [d EXCEPT !.recipes =
                        Append(@, Recipe(d.current_recipe.val.name.val,
                                         d.current_recipe.val.ingredients))]
              ELSE d
    IN  Outcome("view", d2, View(StrThumbsUp, get_action_buttons_markup))

\* handle_callback_query, for callback data cbdata
handle_callback_query(d, cbdata) ==
    LET split == split_whitespace(cbdata)
        cmd == IF split = <<>> THEN <<>> ELSE Head(split)
        rest == IF split = <<>> THEN <<>> ELSE Tail(split)
    IN  CASE cmd = StrStartRecipe ->
                LET d2 == [d EXCEPT !.current_recipe =
                                Some([name |-> None, ingredients |-> <<>>])]
                IN  Outcome("view", d2, View(StrNeuesRezept, get_recipe_markup))
          [] cmd = StrStartRemove ->
                Outcome("view", d, View(StrEinkaufsliste, get_list_markup(d)))
          [] cmd = StrRecipeDone -> RecipeDone(d)
          [] cmd = StrToggle -> Toggle(d, rest)
          [] cmd = StrRemoveDone -> RemoveDoneArm(d)
          [] cmd = StrListRecipes ->
                Outcome("view", d, View(StrClickTheRecipe, get_recipe_buttons(d)))
          [] cmd = StrAdd ->
                LET d2 == handle_new_item(d, FoldSpaces(<<>>, rest))
                IN  Outcome("view", d2, update_shopping_list(d2))
          [] cmd = StrReturnToMainList -> Outcome("view", d, update_shopping_list(d))
          [] OTHER -> Outcome("ok", d, NoView)

\* what follows a successful replace_active_message in the handler of event e
\* on channel c: the recipe_done arm clears the draft
AfterReconcile(c, e, d) ==
    IF c = "cb" /\ split_whitespace(e) # <<>> /\ Head(split_whitespace(e)) = StrRecipeDone
    THEN [d EXCEPT !.current_recipe = None]
    ELSE d

(***************************************************************************)
(* The state.                                                              *)
(***************************************************************************)
VARIABLES
    main,    \* fn main: "load" before the store file is read, "run" in the
             \* dispatcher, "crashed" after a panic of the main task
    data,    \* CONFIG: the Document behind the mutex
    lock,    \* the holder of the CONFIG mutex: "free", "msg" or "cb"
    pc,      \* where the handler loop of each channel stands
    ev,      \* the text or callback data of the event a channel is handling
    view,    \* the arguments of the replace_active_message call in progress
    snap,    \* the clone store_data took of the Document
    chat,    \* the bot's messages the chat displays
    nextId,  \* the identifier the platform gives the next message
    file,    \* the content of the store file
    pending, \* the texts whose write_all has returned and which the blocking
             \* pool has not written to the file yet, a bag
    faults   \* failures and user deletions injected so far

vars == <<main, data, lock, pc, ev, view, snap, chat, nextId, file, pending, faults>>

\* the two handler loops of the dispatcher: messages_handler, callback_queries_handler
Channels == {"msg", "cb"}

\* the chat of the model: its identifier, an i64, by its decimal digits
ChatIdText == <<"7", "7">>

\* the characters of ASCII: Ascii[n + 1] is the character of code n
Ascii ==
    <<"U+0000", "U+0001", "U+0002", "U+0003", "U+0004", "U+0005", "U+0006",
       "U+0007", "U+0008", "\t", "\n", "U+000B", "\f", "\r", "U+000E",
       "U+000F", "U+0010", "U+0011", "U+0012", "U+0013", "U+0014", "U+0015",
       "U+0016", "U+0017", "U+0018", "U+0019", "U+001A", "U+001B", "U+001C",
       "U+001D", "U+001E", "U+001F", " ", "!", "\"", "#", "$", "%", "&", "'",
       "(", ")", "*", "+", ",", "-", ".", "/", "0", "1", "2", "3", "4", "5",
       "6", "7", "8", "9", ":", ";", "<", "=", ">", "?", "@", "A", "B", "C",
       "D", "E", "F", "G", "H", "I", "J", "K", "L", "M", "N", "O", "P", "Q",
       "R", "S", "T", "U", "V", "W", "X", "Y", "Z", "[", "\\", "]", "^", "_",
       "U+0060", "a", "b", "c", "d", "e", "f", "g", "h", "i", "j", "k", "l", "m",
       "n", "o", "p", "q", "r", "s", "t", "u", "v", "w", "x", "y", "z", "{",
       "|", "}", "~", "U+007F" >>

(***************************************************************************)
(* Characters and bytes. A byte is a number of 0..255.                     *)
(***************************************************************************)
HexDigits ==
    <<"0", "1", "2", "3", "4", "5", "6", "7", "8", "9", "A", "B", "C", "D", "E", "F">>

HexVal(h) == (CHOOSE i \in 1..Len(HexDigits) : HexDigits[i] = h) - 1

\* the number the hexadecimal digits of name stand for, from its i-th character
RECURSIVE HexNumber(_, _, _)
HexNumber(name, i, acc) ==
    IF i > Len(name) THEN acc
    ELSE HexNumber(name, i + 1, acc * 16 + HexVal(SubSeq(name, i, i)))

\* the code point of a character: its place in ASCII, or the number of its name
CodePoint(c) ==
    IF Len(c) = 1 THEN (CHOOSE n \in 1..Len(Ascii) : Ascii[n] = c) - 1
    ELSE HexNumber(c, 3, 0)

\* four or more hexadecimal digits of n
RECURSIVE HexName(_, _)
HexName(n, width) ==
    IF n = 0 /\ width >= 4 THEN ""
    ELSE HexName(n \div 16, width + 1) \o HexDigits[(n % 16) + 1]

\* the character of a code point
CharOf(cp) == IF cp < 128 THEN Ascii[cp + 1] ELSE "U+" \o HexName(cp, 0)

\* char::encode_utf8
Utf8(cp) ==
    IF cp < 128 THEN <<cp>>
    ELSE IF cp < 2048 THEN <<192 + (cp \div 64), 128 + (cp % 64)>>
    ELSE IF cp < 65536
         THEN <<224 + (cp \div 4096), 128 + ((cp \div 64) % 64), 128 + (cp % 64)>>
         ELSE <<240 + (cp \div 262144), 128 + ((cp \div 4096) % 64),
                128 + ((cp \div 64) % 64), 128 + (cp % 64)>>

RECURSIVE Flatten(_)
Flatten(seqs) == IF seqs = <<>> THEN <<>> ELSE Head(seqs) \o Flatten(Tail(seqs))

\* str::as_bytes of a string of the model
as_bytes(str) == Flatten([i \in 1..Len(str) |-> Utf8(CodePoint(str[i]))])

\* the characters and the bytes of a literal of ASCII
Chars(lit) == [i \in 1..Len(lit) |-> SubSeq(lit, i, i)]
LitBytes(lit) == [i \in 1..Len(lit) |-> CodePoint(SubSeq(lit, i, i))]

(***************************************************************************)
(* serde_json::to_string_pretty of a Document.                             *)
(***************************************************************************)
LowerHexByte(v) == IF v < 10 THEN 48 + v ELSE 87 + v

\* the bytes serde_json writes for a character of a string: an escape for the
\* quote, the backslash and the control characters below U+0020, UTF-8 for
\* every other character
EscBytes(c) ==
    LET cp == CodePoint(c)
    IN  CASE cp = 34 -> <<92, 34>>
          [] cp = 92 -> <<92, 92>>
          [] cp = 8 -> <<92, 98>>
          [] cp = 12 -> <<92, 102>>
          [] cp = 10 -> <<92, 110>>
          [] cp = 13 -> <<92, 114>>
          [] cp = 9 -> <<92, 116>>
          [] cp < 32 /\ cp \notin {8, 9, 10, 12, 13} ->
                <<92, 117, 48, 48, LowerHexByte(cp \div 16), LowerHexByte(cp % 16)>>
          [] OTHER -> Utf8(cp)

EscLen(c) == Len(EscBytes(c))

\* a string: the quotes and the characters
JsonStr(str) == <<34>> \o Flatten([i \in 1..Len(str) |-> EscBytes(str[i])]) \o <<34>>

JsonStrLen(str) == Len(JsonStr(str))

Indent(level) == [i \in 1..(2 * level) |-> 32]

\* an array of the pretty printer whose closing bracket stands at nesting depth
\* level: "[]" when empty, otherwise a line per element, indented by two
\* spaces per level, and the closing bracket on a line of its own
JsonArr(level, elems) ==
    IF elems = <<>> THEN <<91, 93>>
    ELSE <<91>>
         \o Flatten([i \in 1..Len(elems) |->
                (IF i = 1 THEN <<10>> ELSE <<44, 10>>) \o Indent(level + 1) \o elems[i]])
         \o <<10>> \o Indent(level) \o <<93>>

JsonStrs(level, strs) == JsonArr(level, [i \in 1..Len(strs) |-> JsonStr(strs[i])])

\* itoa of an i32
RECURSIVE NegDigits(_)
NegDigits(n) ==
    LET d == (10 - (n % 10)) % 10
    IN  IF n > -10 THEN <<48 + d>> ELSE NegDigits((n + d) \div 10) \o <<48 + d>>

JsonInt(n) == IF n >= 0 THEN as_bytes(ToDecimal(n)) ELSE <<45>> \o NegDigits(n)

JsonNull == LitBytes("null")
JsonTrue == LitBytes("true")
JsonFalse == LitBytes("false")

\* the field of an object: the key, a colon and a space
JsonKey(name) == Indent(1) \o <<34>> \o LitBytes(name) \o <<34, 58, 32>>
KeyItems == JsonKey("items")
KeyRecipes == JsonKey("recipes")
KeyActiveMessage == JsonKey("active_message")
KeyCurrentRecipe == JsonKey("current_recipe")

\* serde_json::to_string_pretty(&data): an object of the four fields in the
\* order of the struct, tuples written as arrays, None as null
to_string_pretty(d) ==
    LET item(it) == JsonArr(2, <<JsonStr(it.name),
                                 IF it.checked THEN JsonTrue ELSE JsonFalse>>)
        recipe(r) == JsonArr(2, <<JsonStr(r.name), JsonStrs(3, r.ingredients)>>)
        items == JsonArr(1, [i \in 1..Len(d.items) |-> item(d.items[i])])
        recipes == JsonArr(1, [i \in 1..Len(d.recipes) |-> recipe(d.recipes[i])])
        active == IF d.active_message.some
                  THEN JsonArr(1, <<as_bytes(d.active_message.val[1]),
                                    JsonInt(d.active_message.val[2])>>)
                  ELSE JsonNull
        draft == IF d.current_recipe.some
                 THEN JsonArr(1, << IF d.current_recipe.val.name.some
                                    THEN JsonStr(d.current_recipe.val.name.val)
                                    ELSE JsonNull,
                                    JsonStrs(2, d.current_recipe.val.ingredients) >>)
                 ELSE JsonNull
    IN  <<123, 10>> \o KeyItems \o items
        \o <<44, 10>> \o KeyRecipes \o recipes
        \o <<44, 10>> \o KeyActiveMessage \o active
        \o <<44, 10>> \o KeyCurrentRecipe \o draft
        \o <<10, 125>>

JsonLen(d) == Len(to_string_pretty(d))

(***************************************************************************)
(* serde_json::from_str::<Data>: the text as a JSON value, then the value  *)
(* as a Document.                                                          *)
(***************************************************************************)
Parsed(pos, val) == [ok |-> TRUE, pos |-> pos, val |-> val]
NoParse == [ok |-> FALSE, pos |-> 0, val |-> [t |-> "null"]]

\* the byte at place i, or -1 past the end
At(b, i) == IF i >= 1 /\ i <= Len(b) THEN b[i] ELSE -1

RECURSIVE SkipWs(_, _)
SkipWs(b, i) == IF At(b, i) \in {32, 9, 10, 13} THEN SkipWs(b, i + 1) ELSE i

RECURSIVE SkipDigits(_, _)
SkipDigits(b, i) == IF At(b, i) \in 48..57 THEN SkipDigits(b, i + 1) ELSE i

IsHexByte(x) == x \in (48..57) \cup (65..70) \cup (97..102)
HexByteVal(x) == IF x <= 57 THEN x - 48 ELSE IF x <= 70 THEN x - 55 ELSE x - 87

\* the number of the four hexadecimal digits at place i, or -1
Hex4(b, i) ==
    IF \A k \in 0..3 : IsHexByte(At(b, i + k))
    THEN ((HexByteVal(b[i]) * 16 + HexByteVal(b[i + 1])) * 16 + HexByteVal(b[i + 2])) * 16
         + HexByteVal(b[i + 3])
    ELSE -1

\* the UTF-8 sequence at place i: its length and code point, as
\* String::from_utf8 accepts it (read_to_string fails on any other)
Utf8At(b, i) ==
    LET c == At(b, i)
        len == IF c < 128 THEN 1 ELSE IF c \in 194..223 THEN 2
               ELSE IF c \in 224..239 THEN 3 ELSE IF c \in 240..244 THEN 4 ELSE 0
        cont == \A k \in 1..(len - 1) : At(b, i + k) \in 128..191
        cp == CASE len = 2 -> (c - 192) * 64 + (b[i + 1] - 128)
                [] len = 3 -> ((c - 224) * 64 + (b[i + 1] - 128)) * 64 + (b[i + 2] - 128)
                [] len = 4 -> (((c - 240) * 64 + (b[i + 1] - 128)) * 64
                               + (b[i + 2] - 128)) * 64 + (b[i + 3] - 128)
                [] OTHER -> c
    IN  [ok |-> /\ len > 0
                /\ cont
                /\ (len = 3 => cp >= 2048 /\ cp \notin 55296..57343)
                /\ (len = 4 => cp \in 65536..1114111),
         len |-> len, cp |-> cp]

\* a string from the byte after its opening quote. strict: no escape of a
\* surrogate without its partner, which a string that is deserialized
\* rejects and a string that is skipped (IgnoredAny) accepts
RECURSIVE ScanStr(_, _, _, _)
ScanStr(b, i, acc, strict) ==
    LET c == At(b, i)
    IN  IF c < 32 THEN NoParse
        ELSE IF c = 34 THEN Parsed(i + 1, [t |-> "str", s |-> acc, strict |-> strict])
        ELSE IF c = 92
        THEN LET e == At(b, i + 1)
             IN  IF e \in {34, 92, 47} THEN ScanStr(b, i + 2, Append(acc, CharOf(e)), strict)
                 ELSE IF e = 98 THEN ScanStr(b, i + 2, Append(acc, CharOf(8)), strict)
                 ELSE IF e = 102 THEN ScanStr(b, i + 2, Append(acc, CharOf(12)), strict)
                 ELSE IF e = 110 THEN ScanStr(b, i + 2, Append(acc, CharOf(10)), strict)
                 ELSE IF e = 114 THEN ScanStr(b, i + 2, Append(acc, CharOf(13)), strict)
                 ELSE IF e = 116 THEN ScanStr(b, i + 2, Append(acc, CharOf(9)), strict)
                 ELSE IF e = 117
                 THEN LET u == Hex4(b, i + 2)
                          lo == IF At(b, i + 6) = 92 /\ At(b, i + 7) = 117
                                THEN Hex4(b, i + 8) ELSE -1
                      IN  IF u = -1 THEN NoParse
                          ELSE IF u \in 55296..56319
                          THEN IF lo \in 56320..57343
                               THEN ScanStr(b, i + 12,
                                        Append(acc, CharOf(65536 + (u - 55296) * 1024
                                                           + (lo - 56320))), strict)
                               ELSE ScanStr(b, i + 6, acc, FALSE)
                          ELSE IF u \in 56320..57343 THEN ScanStr(b, i + 6, acc, FALSE)
                          ELSE ScanStr(b, i + 6, Append(acc, CharOf(u)), strict)
                 ELSE NoParse
        ELSE LET d == Utf8At(b, i)
             IN  IF d.ok THEN ScanStr(b, i + d.len, Append(acc, CharOf(d.cp)), strict)
                 ELSE NoParse

\* a number: -? (0 | [1-9][0-9]*) (. [0-9]+)? ([eE] [+-]? [0-9]+)?
ParseNumber(b, i) ==
    LET s == IF At(b, i) = 45 THEN i + 1 ELSE i
        intEnd == IF At(b, s) = 48 THEN (IF At(b, s + 1) \in 48..57 THEN 0 ELSE s + 1)
                  ELSE IF At(b, s) \in 49..57 THEN SkipDigits(b, s) ELSE 0
        fracEnd == IF intEnd = 0 THEN 0
                   ELSE IF At(b, intEnd) = 46
                        THEN (IF At(b, intEnd + 1) \in 48..57
                              THEN SkipDigits(b, intEnd + 1) ELSE 0)
                        ELSE intEnd
        expAt == IF At(b, fracEnd + 1) \in {43, 45} THEN fracEnd + 2 ELSE fracEnd + 1
        expEnd == IF fracEnd = 0 THEN 0
                  ELSE IF At(b, fracEnd) \in {101, 69}
                       THEN (IF At(b, expAt) \in 48..57 THEN SkipDigits(b, expAt) ELSE 0)
                       ELSE fracEnd
    IN  IF expEnd = 0 THEN NoParse
        ELSE Parsed(expEnd, [t |-> "num", text |-> SubSeq(b, i, expEnd - 1)])

\* true, false, null
ParseIdent(b, i, lit, val) ==
    IF i + Len(lit) - 1 <= Len(b) /\ SubSeq(b, i, i + Len(lit) - 1) = lit
    THEN Parsed(i + Len(lit), val)
    ELSE NoParse

RECURSIVE ParseValue(_, _)
RECURSIVE ParseElems(_, _, _)
RECURSIVE ParseMembers(_, _, _)

\* the value that starts at place i
ParseValue(b, i) ==
    LET c == At(b, i)
        j == SkipWs(b, i + 1)
    IN  IF c = 34 THEN ScanStr(b, i + 1, <<>>, TRUE)
        ELSE IF c = 91
        THEN (IF At(b, j) = 93 THEN Parsed(j + 1, [t |-> "arr", elems |-> <<>>])
              ELSE ParseElems(b, j, <<>>))
        ELSE IF c = 123
        THEN (IF At(b, j) = 125 THEN Parsed(j + 1, [t |-> "obj", members |-> <<>>])
              ELSE ParseMembers(b, j, <<>>))
        ELSE IF c = 116 THEN ParseIdent(b, i, JsonTrue, [t |-> "bool", flag |-> TRUE])
        ELSE IF c = 102 THEN ParseIdent(b, i, JsonFalse, [t |-> "bool", flag |-> FALSE])
        ELSE IF c = 110 THEN ParseIdent(b, i, JsonNull, [t |-> "null"])
        ELSE IF c = 45 \/ c \in 48..57 THEN ParseNumber(b, i)
        ELSE NoParse

\* the elements of an array from the start of an element
ParseElems(b, i, acc) ==
    LET v == ParseValue(b, i)
        j == SkipWs(b, v.pos)
    IN  IF ~v.ok THEN NoParse
        ELSE IF At(b, j) = 44 THEN ParseElems(b, SkipWs(b, j + 1), Append(acc, v.val))
        ELSE IF At(b, j) = 93 THEN Parsed(j + 1, [t |-> "arr", elems |-> Append(acc, v.val)])
        ELSE NoParse

\* the members of an object from the start of a key
ParseMembers(b, i, acc) ==
    LET k == IF At(b, i) = 34 THEN ScanStr(b, i + 1, <<>>, TRUE) ELSE NoParse
        colon == SkipWs(b, k.pos)
        v == IF k.ok /\ At(b, colon) = 58 THEN ParseValue(b, SkipWs(b, colon + 1)) ELSE NoParse
        j == SkipWs(b, v.pos)
        all == Append(acc, [key |-> k.val, val |-> v.val])
    IN  IF ~v.ok THEN NoParse
        ELSE IF At(b, j) = 44 THEN ParseMembers(b, SkipWs(b, j + 1), all)
        ELSE IF At(b, j) = 125 THEN Parsed(j + 1, [t |-> "obj", members |-> all])
        ELSE NoParse

\* a <= b for two decimal numbers without leading zeros
RECURSIVE BytesLeq(_, _)
BytesLeq(a, b) ==
    IF a = <<>> THEN TRUE
    ELSE IF Head(a) # Head(b) THEN Head(a) < Head(b)
    ELSE BytesLeq(Tail(a), Tail(b))

MagnitudeLeq(a, b) == Len(a) < Len(b) \/ (Len(a) = Len(b) /\ BytesLeq(a, b))

\* the number n is an integer of the range -minMag..max: no fraction and no
\* exponent, no "-0" (which serde_json takes for a float)
IsInt(n, max, minMag) ==
    /\ n.t = "num"
    /\ \A i \in 1..Len(n.text) : n.text[i] \notin {46, 101, 69}
    /\ IF n.text[1] = 45
       THEN Tail(n.text) # <<48>> /\ MagnitudeLeq(Tail(n.text), minMag)
       ELSE MagnitudeLeq(n.text, max)

I64Max == LitBytes("9223372036854775807")
I64MinMagnitude == LitBytes("9223372036854775808")
I32Max == LitBytes("2147483647")
I32MinMagnitude == LitBytes("2147483648")

IsI64(n) == IsInt(n, I64Max, I64MinMagnitude)
IsI32(n) == IsInt(n, I32Max, I32MinMagnitude)

\* the i32 of an integer
RECURSIVE NegValue(_, _)
NegValue(acc, digits) ==
    IF digits = <<>> THEN acc ELSE NegValue(acc * 10 - (Head(digits) - 48), Tail(digits))

I32Of(n) ==
    IF n.text[1] = 45 THEN NegValue(0, Tail(n.text)) ELSE 0 - NegValue(0, n.text)

IsStr(n) == n.t = "str" /\ n.strict
IsStrs(n) == n.t = "arr" /\ \A i \in 1..Len(n.elems) : IsStr(n.elems[i])
IsPair(n) == n.t = "arr" /\ Len(n.elems) = 2
IsItems(n) ==
    /\ n.t = "arr"
    /\ \A i \in 1..Len(n.elems) :
        /\ IsPair(n.elems[i])
        /\ IsStr(n.elems[i].elems[1])
        /\ n.elems[i].elems[2].t = "bool"
IsRecipes(n) ==
    /\ n.t = "arr"
    /\ \A i \in 1..Len(n.elems) :
        /\ IsPair(n.elems[i])
        /\ IsStr(n.elems[i].elems[1])
        /\ IsStrs(n.elems[i].elems[2])
IsActive(n) == n.t = "null" \/ (IsPair(n) /\ IsI64(n.elems[1]) /\ IsI32(n.elems[2]))
IsDraft(n) ==
    \/ n.t = "null"
    \/ /\ IsPair(n)
       /\ (n.elems[1].t = "null" \/ IsStr(n.elems[1]))
       /\ IsStrs(n.elems[2])

StrsOf(n) == [i \in 1..Len(n.elems) |-> n.elems[i].s]
ItemsOf(n) ==
    [i \in 1..Len(n.elems) |-> Item(n.elems[i].elems[1].s, n.elems[i].elems[2].flag)]
RecipesOf(n) ==
    [i \in 1..Len(n.elems) |-> Recipe(n.elems[i].elems[1].s, StrsOf(n.elems[i].elems[2]))]
ActiveOf(n) ==
    IF n.t = "null" THEN None
    ELSE Some(<<[i \in 1..Len(n.elems[1].text) |-> CharOf(n.elems[1].text[i])],
                I32Of(n.elems[2])>>)
DraftOf(n) ==
    IF n.t = "null" THEN None
    ELSE Some([name |-> IF n.elems[1].t = "null" THEN None ELSE Some(n.elems[1].s),
               ingredients |-> StrsOf(n.elems[2])])

\* the values of the members of an object whose key is name
Field(members, name) ==
    LET Named(m) == m.key.s = name
        found == SelectSeq(members, Named)
    IN  [i \in 1..Len(found) |-> found[i].val]

\* #[derive(Deserialize)] of struct Data on a value: an object whose keys are
\* the fields in any order, each at most once, other keys skipped, the two
\* Option fields None when absent; or an array of the four fields
DataOf(v) ==
    LET ms == v.members
        items == Field(ms, Chars("items"))
        recipes == Field(ms, Chars("recipes"))
        active == Field(ms, Chars("active_message"))
        draft == Field(ms, Chars("current_recipe"))
    IN  IF v.t = "obj"
        THEN IF /\ \A i \in 1..Len(ms) : ms[i].key.strict
                /\ Len(items) = 1 /\ IsItems(items[1])
                /\ Len(recipes) = 1 /\ IsRecipes(recipes[1])
                /\ Len(active) <= 1 /\ \A i \in 1..Len(active) : IsActive(active[i])
                /\ Len(draft) <= 1 /\ \A i \in 1..Len(draft) : IsDraft(draft[i])
             THEN [ok |-> TRUE,
                   doc |-> [items |-> ItemsOf(items[1]),
                            recipes |-> RecipesOf(recipes[1]),
                            active_message |->
                                IF active = <<>> THEN None ELSE ActiveOf(active[1]),
                            current_recipe |->
                                IF draft = <<>> THEN None ELSE DraftOf(draft[1])]]
             ELSE [ok |-> FALSE, doc |-> DefaultData]
        ELSE IF /\ v.t = "arr" /\ Len(v.elems) = 4
                /\ IsItems(v.elems[1]) /\ IsRecipes(v.elems[2])
                /\ IsActive(v.elems[3]) /\ IsDraft(v.elems[4])
             THEN [ok |-> TRUE,
                   doc |-> [items |-> ItemsOf(v.elems[1]),
                            recipes |-> RecipesOf(v.elems[2]),
                            active_message |-> ActiveOf(v.elems[3]),
                            current_recipe |-> DraftOf(v.elems[4])]]
             ELSE [ok |-> FALSE, doc |-> DefaultData]

\* serde_json::from_str::<Data> of the bytes of a file that is valid UTF-8;
\* a file that is not fails in read_to_string, with the same end
from_str(b) ==
    LET v == ParseValue(b, SkipWs(b, 1))
    IN  IF v.ok /\ SkipWs(b, v.pos) = Len(b) + 1 THEN DataOf(v.val)
        ELSE [ok |-> FALSE, doc |-> DefaultData]

(***************************************************************************)
(* The store file.                                                         *)
(***************************************************************************)
FileMissing == [kind |-> "missing"]
FileWith(bytes) == [kind |-> "bytes", bytes |-> bytes]
\* the empty file, which a truncating open leaves
FileEmpty == FileWith(<<>>)
\* the file that holds serde_json::to_string_pretty of Document d and no more
FileOf(d) == FileWith(to_string_pretty(d))

\* the file exists and main panics on it: from_str rejects it
Malformed(f) == f.kind = "bytes" /\ ~from_str(f.bytes).ok

\* from_str reads Document d from the file
Holds(f, d) ==
    /\ f.kind = "bytes"
    /\ \/ f.bytes = to_string_pretty(d)
       \/ from_str(f.bytes) = [ok |-> TRUE, doc |-> d]

\* the file after bytes are written at its start, which is where a handle
\* stands after its open: the bytes, and after them what the file held
\* beyond their length
Overlay(f, bytes) ==
    IF f.kind = "missing" THEN FileWith(bytes)
    ELSE FileWith(bytes \o SubSeq(f.bytes, Len(bytes) + 1, Len(f.bytes)))

Message(id, v) == [id |-> id, text |-> v.text, markup |-> v.markup]

\* the Document an earlier run of the bot stored: a recipe named Pasta was being
\* dictated, and the screen of that run, message 0, is no longer in the chat
StoredEarlier ==
    [DefaultData EXCEPT !.active_message = Some(<<ChatIdText, 0>>),
                        !.current_recipe = Some([name |-> Some(Pasta), ingredients |-> <<>>])]

Init ==
    /\ main = "load"
    /\ data = DefaultData
    /\ lock = "free"
    /\ pc = [c \in Channels |-> "idle"]
    /\ ev = [c \in Channels |-> <<>>]
    /\ view = [c \in Channels |-> NoView]
    /\ snap = [c \in Channels |-> None]
    /\ chat = {}
    /\ nextId = 1
    /\ file \in {FileMissing, FileEmpty, FileOf(StoredEarlier)}
    /\ pending = EmptyBag
    /\ faults = 0

(***************************************************************************)
(* Inputs.                                                                 *)
(***************************************************************************)
\* The inputs come in scenarios. In "shopping" the user works on the shopping
\* list: sends an item or a comment, opens the list, toggles, removes, returns,
\* presses a button the bot does not know, and waits for the bot to finish
\* before the next input. In "list" the user sends an item or a comment,
\* toggles, removes and presses the unknown button, at any time, also while
\* the bot is busy with an earlier input; "race" is "list" with the one item
\* and the remove_done button. In "remove" the user puts up to MaxItems items
\* of two names on the list, opens it, toggles and removes, and waits. In
\* "recipe" the user dictates recipes (a name, then ingredients) and adds them.
\* In "capture" the user opens drafts and dictates them, with a leading '#' or
\* without for the name and the first ingredient, with one for the later ones.
\* In these two the user waits as well.
\* the texts the user sends in scenario scn when the Document is d
TextInputs(scn, d) ==
    IF scn \in {"list", "shopping"}
    THEN (IF d.current_recipe.some THEN {} ELSE {Pasta, Note})
    ELSE IF scn = "race"
         THEN (IF d.current_recipe.some THEN {} ELSE {Pasta})
    ELSE IF scn = "remove"
         THEN (IF d.current_recipe.some THEN {} ELSE {Pasta, Noodles})
    ELSE IF scn = "capture"
         THEN (IF ~d.current_recipe.some THEN {}
               ELSE IF Len(d.current_recipe.val.ingredients) = 0 THEN {Pasta, Note}
               ELSE {Note})
    ELSE IF d.current_recipe.some /\ d.current_recipe.val.name.some
         THEN {Noodles, Sauce}
         ELSE {Pasta}

\* the tags of the buttons the user presses in scenario scn
TagInputs(scn) ==
    IF scn = "shopping"
    THEN {StrStartRemove, StrToggle, StrRemoveDone, StrReturnToMainList, StrBogus}
    ELSE IF scn = "list"
         THEN {StrToggle, StrRemoveDone, StrBogus}
    ELSE IF scn = "race"
         THEN {StrRemoveDone}
    ELSE IF scn = "remove"
         THEN {StrStartRemove, StrToggle, StrRemoveDone}
    ELSE IF scn = "capture"
         THEN {StrStartRecipe}
         ELSE {StrStartRecipe, StrRecipeDone, StrListRecipes, StrAdd}

Tag(cbdata) == IF split_whitespace(cbdata) = <<>> THEN <<>> ELSE Head(split_whitespace(cbdata))

ButtonData(markup) ==
    UNION { {markup[r][b].data : b \in 1..Len(markup[r])} : r \in 1..Len(markup) }

\* the callback data a press can deliver: every button the bot's views hold for
\* the current Document, a toggle of an index past the list, a toggle without
\* or with an unparsable index, an add of a name no recipe has, an unknown tag
CallbackInputs(d, tags) ==
  LET all ==
    UNION { ButtonData(get_action_buttons_markup), ButtonData(get_recipe_markup),
            ButtonData(get_list_markup(d)), ButtonData(get_recipe_buttons(d)) }
    \cup { StrToggle \o <<" ">> \o ToDecimal(Len(d.items)),
           StrToggle,
           StrToggle \o <<" ">> \o <<"x">>,
           StrAdd \o <<" ">> \o Unknown,
           StrBogus }
  IN  {x \in all : Tag(x) \in tags}

\* the time of an input: any time in "list" and "race"; in the others once the
\* bot is done with the inputs before it, their saves included
Quiet(scn) ==
    \/ scn \in {"list", "race"}
    \/ /\ \A c \in Channels : pc[c] \in {"idle", "dead"}
       /\ pending = EmptyBag

\* the strings and flags a Document holds: a name and a flag per item, a name
\* and its ingredients per recipe, the name and the ingredients of the draft
RECURSIVE RecipesSize(_)
RecipesSize(rs) ==
    IF rs = <<>> THEN 0 ELSE 1 + Len(Head(rs).ingredients) + RecipesSize(Tail(rs))

Size(d) ==
    2 * Len(d.items) + RecipesSize(d.recipes)
    + (IF d.current_recipe.some
       THEN (IF d.current_recipe.val.name.some THEN 1 ELSE 0)
            + Len(d.current_recipe.val.ingredients)
       ELSE 0)

\* an event is within the bound of the model when the Document it leaves is:
\* by the number of its items in "remove", by its size in the other scenarios
Fits(scn, d) ==
    IF scn = "remove" THEN Len(d.items) <= MaxItems ELSE Size(d) <= MaxSize

(***************************************************************************)
(* fn main: the load of the store file.                                    *)
(***************************************************************************)
\* what the open and the read of the store file can give: "ok"; for a file
\* that exists, a failure of the open ("no_open") or of the read ("no_read")
LoadAnswers ==
    {"ok"} \cup (IF file.kind = "bytes" /\ faults < MaxFaults
                 THEN {"no_open", "no_read"} ELSE {})

\* a file that does not open is taken for a missing one; a read that fails, a
\* text that is not UTF-8 and a text from_str rejects end main by a panic
Load ==
    /\ main = "load"
    /\ lock = "free"
    /\ \E a \in LoadAnswers :
        /\ faults' = IF a = "ok" THEN faults ELSE faults + 1
        /\ IF file.kind = "missing" \/ a = "no_open"
           THEN main' = "run" /\ data' = data
           ELSE IF a = "ok" /\ from_str(file.bytes).ok
                THEN main' = "run" /\ data' = from_str(file.bytes).doc
                ELSE main' = "crashed" /\ data' = data
    /\ UNCHANGED <<lock, pc, ev, view, snap, chat, nextId, file, pending>>

(***************************************************************************)
(* The handlers, from the lock to the first await.                         *)
(***************************************************************************)
\* a lock that does not exclude
LockIgnored == TRUE

\* CONFIG.lock().await returns
LockFree == lock = "free"

\* the handler of channel c, given what its code did before its first await
Dispatch(scn, c, e, out) ==
    /\ Fits(scn, AfterReconcile(c, e, out.doc))
    /\ data' = out.doc
    /\ ev' = [ev EXCEPT ![c] = IF out.kind = "view" THEN e ELSE <<>>]
    /\ view' = [view EXCEPT ![c] = out.view]
    /\ lock' = IF out.kind = "view" THEN c ELSE lock
    /\ pc' = [pc EXCEPT ![c] =
                CASE out.kind = "view" ->
                        IF out.doc.active_message.some THEN "edit" ELSE "send"
                  [] out.kind = "ok" -> "store_clone"
                  [] OTHER -> "dead"]
    /\ UNCHANGED <<main, snap, chat, nextId, file, pending, faults>>

MessageEvent(scn) ==
    /\ main = "run"
    /\ pc["msg"] = "idle"
    /\ Quiet(scn)
    /\ LockFree
    /\ \E text \in TextInputs(scn, data) : Dispatch(scn, "msg", text, handle_message(data, text))

CallbackEvent(scn) ==
    /\ main = "run"
    /\ pc["cb"] = "idle"
    /\ Quiet(scn)
    /\ LockFree
    /\ \E cbdata \in CallbackInputs(data, TagInputs(scn)) :
            Dispatch(scn, "cb", cbdata, handle_callback_query(data, cbdata))

(***************************************************************************)
(* Data::replace_active_message: the edit, then the send.                  *)
(***************************************************************************)
\* the messages of the chat that active_message am names
Displayed(am) == {m \in chat : am[1] = ChatIdText /\ m.id = am[2]}

\* the answers the platform can give to the edit of message am to view v:
\* "ok", "not_modified" (the content is what the message shows), "gone" (the
\* message is not in the chat), or "fail", a failure of the call
EditAnswers(am, v) ==
    (IF Displayed(am) = {} THEN {"gone"}
     ELSE IF Message(am[2], v) \in chat THEN {"not_modified"} ELSE {"ok"})
    \cup (IF faults < MaxFaults THEN {"fail"} ELSE {})

\* the handler of channel c after replace_active_message returned Ok on d
Proceed(c, d) ==
    IF c = "msg"
    THEN /\ data' = d
         /\ pc' = [pc EXCEPT ![c] = "delete"]
         /\ UNCHANGED <<lock, ev, view>>
    ELSE /\ data' = AfterReconcile(c, ev[c], d)
         /\ pc' = [pc EXCEPT ![c] = "store_clone"]
         /\ lock' = "free"
         /\ ev' = [ev EXCEPT ![c] = <<>>]
         /\ view' = [view EXCEPT ![c] = NoView]

\* the handler of channel c returns Err: the guard is dropped and the expect of
\* the handler loop panics, which ends the loop's task
Abort(c) ==
    /\ pc' = [pc EXCEPT ![c] = "dead"]
    /\ lock' = "free"
    /\ ev' = [ev EXCEPT ![c] = <<>>]
    /\ view' = [view EXCEPT ![c] = NoView]

\* a variant that returns the error of the edit instead of going on to send
EditSurfacesError(c) ==
    /\ pc[c] = "edit"
    /\ LET am == data.active_message.val
       IN  \E a \in EditAnswers(am, view[c]) :
            /\ faults' = IF a = "fail" THEN faults + 1 ELSE faults
            /\ chat' = IF a = "ok"
                       THEN (chat \ Displayed(am)) \cup {Message(am[2], view[c])}
                       ELSE chat
            /\ IF a = "ok"
               THEN Proceed(c, [data EXCEPT !.active_message = Some(am)])
               ELSE IF a = "not_modified"
                    THEN Proceed(c, data)
                    ELSE Abort(c) /\ UNCHANGED data
    /\ UNCHANGED <<main, snap, nextId, file, pending>>

\* ctx.bot.edit_message_text(...).send().await and the match on its result
Edit(c) ==
    /\ pc[c] = "edit"
    /\ LET am == data.active_message.val
       IN  \E a \in EditAnswers(am, view[c]) :
            /\ faults' = IF a = "fail" THEN faults + 1 ELSE faults
            /\ chat' = IF a = "ok"
                       THEN (chat \ Displayed(am)) \cup {Message(am[2], view[c])}
                       ELSE chat
            /\ IF a = "ok"
               THEN Proceed(c, [data EXCEPT !.active_message = Some(am)])
               ELSE IF a = "not_modified"
                    THEN Proceed(c, data)
                    ELSE /\ pc' = [pc EXCEPT ![c] = "send"]
                         /\ UNCHANGED <<data, lock, ev, view>>
    /\ UNCHANGED <<main, snap, nextId, file, pending>>

SendAnswers == {"ok"} \cup (IF faults < MaxFaults THEN {"fail"} ELSE {})

\* a variant that does not record the message it sent
SendKeepsActive(c) ==
    /\ pc[c] = "send"
    /\ \E a \in SendAnswers :
        IF a = "ok"
        THEN /\ chat' = chat \cup {Message(nextId, view[c])}
             /\ nextId' = nextId + 1
             /\ Proceed(c, data)
             /\ UNCHANGED faults
        ELSE /\ faults' = faults + 1
             /\ Abort(c)
             /\ UNCHANGED <<data, chat, nextId>>
    /\ UNCHANGED <<main, snap, file, pending>>

\* ctx.bot.send_message(...).send().await?
Send(c) ==
    /\ pc[c] = "send"
    /\ \E a \in SendAnswers :
        IF a = "ok"
        THEN /\ chat' = chat \cup {Message(nextId, view[c])}
             /\ nextId' = nextId + 1
             /\ Proceed(c, [data EXCEPT !.active_message = Some(<<ChatIdText, nextId>>)])
             /\ UNCHANGED faults
        ELSE /\ faults' = faults + 1
             /\ Abort(c)
             /\ UNCHANGED <<data, chat, nextId>>
    /\ UNCHANGED <<main, snap, file, pending>>

\* ctx.delete_message().send().await? of handle_message, and its return
Delete ==
    /\ pc["msg"] = "delete"
    /\ \E a \in SendAnswers :
        IF a = "ok"
        THEN /\ pc' = [pc EXCEPT !["msg"] = "store_clone"]
             /\ lock' = "free"
             /\ ev' = [ev EXCEPT !["msg"] = <<>>]
             /\ view' = [view EXCEPT !["msg"] = NoView]
             /\ UNCHANGED faults
        ELSE /\ faults' = faults + 1
             /\ Abort("msg")
    /\ UNCHANGED <<main, data, snap, chat, nextId, file, pending>>

(***************************************************************************)
(* store_data.                                                             *)
(***************************************************************************)
\* let data: Data = CONFIG.lock().await.clone(); the guard is a temporary
StoreClone(c) ==
    /\ pc[c] = "store_clone"
    /\ LockFree
    /\ snap' = [snap EXCEPT ![c] = Some(data)]
    /\ pc' = [pc EXCEPT ![c] = "store_open"]
    /\ UNCHANGED <<main, data, lock, ev, view, chat, nextId, file, pending, faults>>

\* OpenOptions::new().create(true).write(true).truncate(true).open(..).await
StoreOpen(c) ==
    /\ pc[c] = "store_open"
    /\ \E a \in SendAnswers :
        IF a = "ok"
        THEN /\ file' = FileEmpty
             /\ pc' = [pc EXCEPT ![c] = "store_write"]
             /\ UNCHANGED <<snap, faults>>
        ELSE /\ faults' = faults + 1
             /\ pc' = [pc EXCEPT ![c] = "idle"]
             /\ snap' = [snap EXCEPT ![c] = None]
             /\ UNCHANGED file
    /\ UNCHANGED <<main, data, lock, ev, view, chat, nextId, pending>>

\* file.write_all(string.as_bytes()).await and the return of store_data:
\* write_all of tokio::fs::File copies the bytes to the buffer of the handle,
\* hands the write to the blocking pool and returns Ok; nothing flushes the
\* handle, so the loop takes its next event with the write still to come
StoreWrite(c) ==
    /\ pc[c] = "store_write"
    /\ BagCardinality(pending) < MaxPending
    /\ pending' = pending (+) SetToBag({to_string_pretty(snap[c].val)})
    /\ pc' = [pc EXCEPT ![c] = "idle"]
    /\ snap' = [snap EXCEPT ![c] = None]
    /\ UNCHANGED <<main, data, lock, ev, view, chat, nextId, file, faults>>

\* the bytes a failing write of text has written before its error
WriteCuts(text) == {k \in {0, WriteLimit} : k < Len(text)}

\* the file after the write of text, carried out in full when the answer is
\* "ok" and in part otherwise
Written(f, text, a) ==
    IF a = "ok" THEN {Overlay(f, text)}
    ELSE {Overlay(f, SubSeq(text, 1, k)) : k \in WriteCuts(text)}

\* the blocking pool carries out a write: the bytes go to the start of the
\* file, all of them, or some of them when the write fails; the error of a
\* failing write is read by nobody
WriteArrives ==
    /\ \E text \in BagToSet(pending) :
        /\ pending' = pending (-) SetToBag({text})
        /\ \E a \in SendAnswers :
            /\ file' \in Written(file, text, a)
            /\ faults' = IF a = "ok" THEN faults ELSE faults + 1
    /\ UNCHANGED <<main, data, lock, pc, ev, view, snap, chat, nextId>>

(***************************************************************************)
(* The environment.                                                        *)
(***************************************************************************)
\* the user deletes one of the bot's messages from the chat
UserDelete ==
    /\ faults < MaxFaults
    /\ \E m \in chat : chat' = chat \ {m}
    /\ faults' = faults + 1
    /\ UNCHANGED <<main, data, lock, pc, ev, view, snap, nextId, file, pending>>

Next(scn) ==
    \/ Load
    \/ MessageEvent(scn)
    \/ CallbackEvent(scn)
    \/ \E c \in Channels : Edit(c)
    \/ \E c \in Channels : Send(c)
    \/ Delete
    \/ \E c \in Channels : StoreClone(c)
    \/ \E c \in Channels : StoreOpen(c)
    \/ \E c \in Channels : StoreWrite(c)
    \/ WriteArrives
    \/ UserDelete

\* the shopping list scenario
Spec == Init /\ [][Next("list")]_vars

\* the shopping list scenario with a user who waits
SpecList == Init /\ [][Next("shopping")]_vars

\* the recipe scenario
SpecRecipe == Init /\ [][Next("recipe")]_vars

\* two users of the shopping list at once, with few inputs
SpecRace == Init /\ [][Next("race")]_vars

\* the capture scenario
SpecCapture == Init /\ [][Next("capture")]_vars

\* the scenario of the removals
SpecRemove == Init /\ [][Next("remove")]_vars

(***************************************************************************)
(* Vocabulary of the properties.                                           *)
(***************************************************************************)
\* channel c is between the lock and the return of its handler
InBody(c) == pc[c] \in {"edit", "send", "delete"}

\* the handler loop of channel c has ended: an event delivered to the channel
\* from now on is dropped by the dispatcher, never handled
Aborted(c) == pc[c] = "dead"

\* in this step channel c starts to handle a button press with callback data x
\* that leads to a view update
Presses(c, x) == pc[c] = "idle" /\ ev'[c] = x /\ pc'[c] \in {"edit", "send"}

\* in this step the handling of an event of channel c ends, whatever the outcome
Finishes(c) ==
    /\ pc[c] \in {"idle", "edit", "send", "delete"}
    /\ pc'[c] \notin {"idle", "edit", "send", "delete"}

UniqueNames(recipes) ==
    \A i, j \in 1..Len(recipes) : recipes[i].name = recipes[j].name => i = j

\* the callback data of the recipe-picker buttons labelled name
PickerData(d, name) ==
    {get_recipe_buttons(d)[r][1].data :
        r \in {k \in 1..Len(d.recipes) : get_recipe_buttons(d)[k][1].label = name}}

Unchecked(item) == ~item.checked

\* in this step the replace_active_message call of channel c returns Ok
ReturnsOk(c) == pc[c] \in {"edit", "send"} /\ pc'[c] \notin {"edit", "send", "dead"}

(***************************************************************************)
(* C1. Recipe round-trip: in Normal mode, with the one recipe named Pasta  *)
(* that the capture start_recipe, "Pasta", "Noodles", "Sauce", recipe_done *)
(* leaves, a press of the recipe-picker button of Pasta appends exactly    *)
(* (Noodles, false), (Sauce, false) to items.                              *)
(***************************************************************************)
RecipeRoundTrip ==
    [][ \A x \in PickerData(data, Pasta) :
            ( /\ Presses("cb", x)
              /\ ~data.current_recipe.some
              /\ SelectSeq(data.recipes, LAMBDA r : r.name = Pasta)
                    = <<Recipe(Pasta, <<Noodles, Sauce>>)>> )
            => data'.items = data.items \o <<Item(Noodles, FALSE), Item(Sauce, FALSE)>>
      ]_vars

(***************************************************************************)
(* C2. Single visible screen: the chat shows at most one bot message,      *)
(* whatever the outcomes of the edit and send calls.                       *)
(***************************************************************************)
SingleVisibleScreen == Cardinality(chat) <= 1

(***************************************************************************)
(* C3. Mutual exclusion: at most one handler is between its lock and its   *)
(* return, and a handler there holds the lock of the Document.             *)
(***************************************************************************)
MutualExclusion ==
    /\ ~(InBody("msg") /\ InBody("cb"))
    /\ \A c \in Channels : InBody(c) => lock = c
    /\ lock = "free" => \A c \in Channels : ~InBody(c)

\* the message handler is in its body while the callback loop, done with an
\* event of its own, waits for the lock to take its clone
MutualExclusionWitness ==
    /\ InBody("msg") /\ pc["cb"] = "store_clone" /\ lock = "msg"

(***************************************************************************)
(* C4. Remove-done correctness: a remove_done press leaves exactly the     *)
(* items that were unchecked, in their order; the rest of the event does   *)
(* not touch the items; and no other step takes an item off the list.      *)
(***************************************************************************)
RemoveDoneCorrect ==
    [][ /\ Presses("cb", StrRemoveDone)
            => data'.items = SelectSeq(data.items, Unchecked)
        /\ (InBody("cb") /\ ev["cb"] = StrRemoveDone) => data'.items = data.items
        /\ Len(data'.items) < Len(data.items) => Presses("cb", StrRemoveDone)
      ]_vars

\* a remove_done is under way on a list of three items whose first two were
\* checked: the screen still shows the three, and the Document holds the
\* third, which took the place of the first
RemoveDoneWitness ==
    /\ pc["cb"] = "edit" /\ ev["cb"] = StrRemoveDone
    /\ data.items = <<Item(Noodles, FALSE)>>
    /\ \E m \in chat :
        /\ data.active_message = Some(<<ChatIdText, m.id>>)
        /\ m.markup = get_list_markup([items |-> <<Item(Pasta, TRUE), Item(Pasta, TRUE),
                                                   Item(Noodles, FALSE)>>])

(***************************************************************************)
(* C5. Error isolation: after an event aborted with an error the lock is   *)
(* released and both handler loops still handle the events delivered.      *)
(***************************************************************************)
ErrorIsolation ==
    \A c \in Channels :
        Aborted(c) => (lock # c /\ \A k \in Channels : pc[k] # "dead")

(***************************************************************************)
(* C6. Malformed store recovery: the load of a missing or malformed store  *)
(* file leaves the default Document and goes on to the event loop.         *)
(***************************************************************************)
MalformedStoreRecovery ==
    [][ (main = "load" /\ main' # "load" /\ (file.kind = "missing" \/ Malformed(file)))
            => (main' = "run" /\ data' = DefaultData)
      ]_vars

(***************************************************************************)
(* C7. Idempotent reconciliation: a replace_active_message call whose      *)
(* arguments are what the active message displays (the state a call with   *)
(* the same arguments has left) leaves the chat as it is, with exactly one *)
(* message displayed, and active_message as it is.                         *)
(***************************************************************************)
IdempotentReconcile ==
    [][ \A c \in Channels :
            ( /\ pc[c] \in {"edit", "send"} /\ pc'[c] \notin {"edit", "send"}
              /\ data.active_message.some
              /\ Message(data.active_message.val[2], view[c])
                    \in Displayed(data.active_message.val) )
            => ( /\ chat' = chat
                 /\ Cardinality(chat') = 1
                 /\ data'.active_message = data.active_message )
      ]_vars

(***************************************************************************)
(* C8. Unknown recipe fallback: the press add Unknown, when no recipe is   *)
(* named Unknown, appends the one unchecked item named "Unknown".          *)
(***************************************************************************)
UnknownRecipeFallback ==
    [][ ( /\ Presses("cb", StrAdd \o <<" ">> \o Unknown)
          /\ \A i \in 1..Len(data.recipes) : data.recipes[i].name # Unknown )
            => data'.items = Append(data.items, Item(Unknown, FALSE))
      ]_vars

(***************************************************************************)
(* C9. Recipe names are unique: recipes holds one entry per name, and a    *)
(* recipe_done whose draft is named like a stored recipe leaves the        *)
(* draft's ingredients as the ingredients that name resolves to.           *)
(***************************************************************************)
RecipeNamesUnique ==
    [][ /\ UniqueNames(data'.recipes)
        /\ ( /\ Presses("cb", StrRecipeDone)
             /\ data.current_recipe.some
             /\ data.current_recipe.val.name.some )
            => MatchingIngredients(data'.recipes, data.current_recipe.val.name.val)
                    = data.current_recipe.val.ingredients
      ]_vars

(***************************************************************************)
(* C10. Persistence after every event: when the handling of an event ends, *)
(* whatever its outcome, its loop goes on to store_data.                   *)
(***************************************************************************)
PersistAfterEveryEvent ==
    [][ \A c \in Channels : Finishes(c) => pc'[c] = "store_clone" ]_vars

(***************************************************************************)
(* C11. Comment suppression: the handling of a text that starts with '#',  *)
(* received in Normal mode, leaves the Document (items, recipes,           *)
(* current_recipe, active_message) and the chat as they were and goes      *)
(* straight on to store_data: no edit, no send.                            *)
(***************************************************************************)
CommentSuppression ==
    [][ ( /\ pc["msg"] = "idle" /\ pc'["msg"] # "idle"
          /\ ~data.current_recipe.some
          /\ (ev'["msg"] = <<>> \/ starts_with(ev'["msg"], <<"#">>)) )
            => ( /\ data' = data
                 /\ chat' = chat
                 /\ nextId' = nextId
                 /\ pc'["msg"] = "store_clone" )
      ]_vars

\* a comment was the first event of a bot that started without a store file:
\* its loop is on the way to store_data, the Document and the chat are empty
CommentSuppressionWitness ==
    /\ main = "run" /\ pc["msg"] = "store_clone"
    /\ data = DefaultData /\ chat = {} /\ handle_message(data, Note).kind = "ok"

(***************************************************************************)
(* C12. Toggle involution: a press toggle i with i in range changes only   *)
(* items[i].checked, the rest of the event leaves items, recipes and       *)
(* current_recipe alone, and a second toggle i on the Document the first   *)
(* left restores items, recipes and current_recipe.                        *)
(***************************************************************************)
ToggleInvolution ==
    [][ /\ \A i \in 0..(Len(data.items) - 1) :
                LET x == StrToggle \o <<" ">> \o ToDecimal(i)
                IN  Presses("cb", x) =>
                        /\ data' = [data EXCEPT !.items[i + 1].checked = ~@]
                        /\ LET again == handle_callback_query(data', x)
                           IN  /\ again.kind = "view"
                               /\ again.doc.items = data.items
                               /\ again.doc.recipes = data.recipes
                               /\ again.doc.current_recipe = data.current_recipe
        /\ (InBody("cb") /\ Tag(ev["cb"]) = StrToggle) =>
                /\ data'.items = data.items
                /\ data'.recipes = data.recipes
                /\ data'.current_recipe = data.current_recipe
      ]_vars

\* the second of two presses toggle 0 is under way: the screen the first left
\* shows the item checked, and the Document holds it unchecked again
ToggleInvolutionWitness ==
    /\ pc["cb"] = "edit" /\ ev["cb"] = StrToggle \o <<" ">> \o ToDecimal(0)
    /\ data.items = <<Item(Pasta, FALSE)>>
    /\ \E m \in chat :
        /\ data.active_message = Some(<<ChatIdText, m.id>>)
        /\ m.markup = get_list_markup([items |-> <<Item(Pasta, TRUE)>>])

(***************************************************************************)
(* C13. Add-item resolution for text events: a text s without a leading    *)
(* '#', received in Normal mode, appends one unchecked item per ingredient *)
(* of the recipe named s, in the recipe's order and without an item named  *)
(* s, when recipes holds a recipe named s (its ingredient list may be      *)
(* empty); otherwise it appends the one unchecked item named s. The items  *)
(* already there stay as they were.                                        *)
(***************************************************************************)
AddItemResolution ==
    [][ ( /\ pc["msg"] = "idle" /\ pc'["msg"] \in {"edit", "send"}
          /\ ~data.current_recipe.some )
            => LET s == ev'["msg"]
                   named == SelectSeq(data.recipes, LAMBDA r : r.name = s)
               IN  IF named # <<>>
                   THEN \E k \in 1..Len(named) :
                            data'.items = data.items
                                \o [i \in 1..Len(named[k].ingredients) |->
                                        Item(named[k].ingredients[i], FALSE)]
                   ELSE data'.items = Append(data.items, Item(s, FALSE))
      ]_vars

(***************************************************************************)
(* C14. Reconcile fallback: an edit of the active message that fails with  *)
(* an error other than content-unchanged (the message is gone, or the call *)
(* fails) goes on to the send with nothing changed; a send that succeeds   *)
(* makes the new message the active message; a send that fails ends the    *)
(* handler with the error and leaves active_message as it was; an edit     *)
(* answered content-unchanged succeeds without a send and leaves           *)
(* active_message as it was.                                               *)
(***************************************************************************)
ReconcileFallback ==
    [][ \A c \in Channels :
          /\ (pc[c] = "edit" /\ pc'[c] # "edit") =>
                LET am == data.active_message.val
                IN  IF faults' # faults \/ Displayed(am) = {}
                    THEN /\ pc'[c] = "send"
                         /\ data' = data /\ chat' = chat /\ nextId' = nextId
                    ELSE Message(am[2], view[c]) \in chat =>
                            /\ pc'[c] \notin {"send", "dead"}
                            /\ data'.active_message = data.active_message
                            /\ chat' = chat /\ nextId' = nextId
          /\ (pc[c] = "send" /\ pc'[c] # "send") =>
                IF faults' = faults
                THEN /\ data'.active_message = Some(<<ChatIdText, nextId>>)
                     /\ Message(nextId, view[c]) \in chat'
                     /\ nextId' = nextId + 1
                     /\ pc'[c] # "dead"
                ELSE /\ pc'[c] = "dead"
                     /\ data'.active_message = data.active_message
                     /\ chat' = chat /\ nextId' = nextId
      ]_vars

\* the edit of the active message failed, the message being gone, and the
\* handler stands at the send, which the platform may accept or fail
ReconcileFallbackWitness ==
    \E c \in Channels :
        /\ pc[c] = "send" /\ faults < MaxFaults
        /\ data.active_message.some /\ Displayed(data.active_message.val) = {}

(***************************************************************************)
(* C15. Active-message validity: when a replace_active_message call        *)
(* returns Ok, active_message names a message the chat displays, and that  *)
(* message shows exactly the text and buttons of the call; a message the   *)
(* bot sends or edits becomes the active message in the same step, and     *)
(* active_message changes in no other way, so it names the message the bot *)
(* sent or edited last.                                                    *)
(***************************************************************************)
ActiveMessageValid ==
    [][ /\ \A c \in Channels :
                ReturnsOk(c) =>
                    /\ data'.active_message.some
                    /\ data'.active_message.val[1] = ChatIdText
                    /\ Message(data'.active_message.val[2], view[c]) \in chat'
                    /\ Cardinality({m \in chat' : m.id = data'.active_message.val[2]}) = 1
        /\ \A m \in chat' \ chat : data'.active_message = Some(<<ChatIdText, m.id>>)
        /\ (main = "run" /\ data'.active_message # data.active_message) =>
                \E m \in chat' \ chat : data'.active_message = Some(<<ChatIdText, m.id>>)
      ]_vars

\* the edit of message 1 failed while it was displayed and the send after it
\* succeeded: the call returned Ok, the chat shows two messages, and the
\* active message is the one sent last, showing the view of the call
ActiveMessageValidWitness ==
    /\ pc["msg"] = "delete"
    /\ Cardinality(chat) = 2
    /\ data.active_message = Some(<<ChatIdText, nextId - 1>>)
    /\ Message(nextId - 1, view["msg"]) \in chat

(***************************************************************************)
(* C16. Persistence write under the lock: the write of store_data happens  *)
(* under the lock of the Document, so that between the clone a loop takes  *)
(* for saving and the end of that clone's write the handler of the other   *)
(* channel is never in its body.                                           *)
(***************************************************************************)
PersistUnderLock ==
    \A c \in Channels :
        pc[c] \in {"store_open", "store_write"} =>
            \A k \in Channels \ {c} : ~InBody(k)

(***************************************************************************)
(* C17. Capture-mode text transitions: a text received while a draft is    *)
(* present, a text with a leading '#' included, leaves items and recipes   *)
(* as they were and keeps the draft; it becomes the name of a draft        *)
(* without a name, whose ingredients stay, and the last ingredient of a    *)
(* draft with a name, whose name and earlier ingredients stay; the rest of *)
(* the event changes none of them.                                         *)
(***************************************************************************)
CaptureTextTransitions ==
    [][ /\ ( /\ pc["msg"] = "idle" /\ pc'["msg"] # "idle"
              /\ data.current_recipe.some )
            => LET cr == data.current_recipe.val
                   text == ev'["msg"]
               IN  /\ pc'["msg"] \in {"edit", "send"}
                   /\ text \in {Pasta, Note}
                   /\ data'.items = data.items
                   /\ data'.recipes = data.recipes
                   /\ data'.current_recipe =
                        IF cr.name.some
                        THEN Some([name |-> cr.name,
                                   ingredients |-> Append(cr.ingredients, text)])
                        ELSE Some([name |-> Some(text),
                                   ingredients |-> cr.ingredients])
        /\ (InBody("msg") /\ data.current_recipe.some) =>
                /\ data'.items = data.items
                /\ data'.recipes = data.recipes
                /\ data'.current_recipe = data.current_recipe
      ]_vars

\* a text with a leading '#' arrived for a draft without a name: it is the
\* name of the draft now, and the view update of the event is under way
CaptureTextTransitionsWitness ==
    /\ pc["msg"] = "edit" /\ ev["msg"] = Note
    /\ data.current_recipe = Some([name |-> Some(Note), ingredients |-> <<>>])

(***************************************************************************)
(* C18. Inbound message deletion: when the view update of a text event     *)
(* that is not an ignored comment ends, whatever its outcome, the handler  *)
(* goes on to the delete of the inbound message; the handling of an        *)
(* ignored comment does not.                                               *)
(***************************************************************************)
InboundDeletion ==
    [][ /\ (pc["msg"] \in {"edit", "send"} /\ pc'["msg"] \notin {"edit", "send"})
                => pc'["msg"] = "delete"
        /\ (pc["msg"] = "idle" /\ pc'["msg"] # "idle") => pc'["msg"] # "delete"
      ]_vars

(***************************************************************************)
(* C19. No stale persisted state: with no failure of a transport call or   *)
(* of a file operation and no handler ended by an error, once both loops   *)
(* are done with the events delivered and with their saves, and every     *)
(* write has reached the file, the store file holds the Document of the    *)
(* program.                                                                *)
(***************************************************************************)
NoStalePersistedState ==
    ( /\ main = "run" /\ faults = 0
      /\ \A c \in Channels : pc[c] = "idle"
      /\ pending = EmptyBag
      /\ file.kind # "missing" )
        => Holds(file, data)

(***************************************************************************)
(* C20. recipe_done commits and clears atomically: when a recipe_done      *)
(* event that added its draft to recipes ends, with the view update done   *)
(* or failed, current_recipe is absent.                                    *)
(***************************************************************************)
RecipeDoneAtomic ==
    [][ ( /\ InBody("cb") /\ ev["cb"] = StrRecipeDone
          /\ data.current_recipe.some /\ data.current_recipe.val.name.some
          /\ ~(pc'["cb"] \in {"edit", "send"}) )
            => ~data'.current_recipe.some
      ]_vars

====
